---- MODULE Spec2Model ----
(***************************************************************************)
(* Room presence state machine of jarvis/services/room_presence_service.py *)
(* (RoomPresenceService): the monitor loop, one presence tick              *)
(* (_check_presence) with its event handlers, and start/stop_monitoring.   *)
(*                                                                         *)
(* The monitor loop is an asyncio task.  A tick runs without interruption  *)
(* from the wake-up of the loop's sleep to the first callback that         *)
(* suspends; the callbacks the brain registers are coroutines that await a *)
(* websocket broadcast, so every _emit is a suspension point at which      *)
(* stop_monitoring's task.cancel() can be delivered.  pc is the position   *)
(* of the monitor task: "idle" (no task yet), "waiting" (between two       *)
(* ticks: created and not yet run, or in one of the loop's sleeps),        *)
(* "cb_<event>" (suspended in a callback of that event), "done".           *)
(*                                                                         *)
(* MQTT bridge of jarvis/services/mqtt_bridge_service.py                   *)
(* (MQTTBridgeService): connect/disconnect, the callbacks the paho client  *)
(* runs on its network thread (_on_connect, _on_disconnect, _on_message),  *)
(* the handler registry, the command helpers and the state queries.  The   *)
(* two services share no state: Spec runs the presence service with the    *)
(* bridge as constructed; ConnSpec, DeviceSpec, DispatchSpec and LogSpec   *)
(* run the bridge with the presence service as constructed.                *)
(*                                                                         *)
(* Brain of jarvis/services/jarvis_brain.py (JarvisBrain): _transition,    *)
(* the handlers of the presence events, which the presence service runs as *)
(* the first callback of each event, and the main loop.  A transition is   *)
(* a coroutine: it writes the state, then awaits the buzzer when it enters *)
(* INTRUDER_ALERT, then awaits the state-change callback that api.py       *)
(* registers.  HomeSpec runs the started brain with the presence service;  *)
(* BrainSpec adds the tasks that call _transition from outside (the API    *)
(* endpoints, the task of the MQTT intruder handler).                      *)
(***************************************************************************)
EXTENDS Integers, Sequences, FiniteSets, TLC

\* ---------------------------------------------------------------- bounds
MaxFaces == 2          \* faces in one frame
MaxCount == 4          \* cap of the three run-length counters
MaxRecords == 2        \* intruder records kept in the model
MaxMessages == 2       \* messages received under DeviceSpec, DispatchSpec
MaxHandlers == 2       \* handlers registered with the bridge
MaxSent == 2           \* cap of stats.messages_sent
MaxErrors == 2         \* cap of stats.errors
MaxReconnections == 1  \* cap of stats.reconnections
MaxFlood == 502        \* messages the bridge receives under LogSpec
MaxCallbacks == 2      \* callbacks registered with on() for each event
MaxChanges == 3        \* cap of the brain's stats.state_changes

\* ------------------------------------------------------- program constants
stability_count == 3
GREETING_COOLDOWN == 1800
max_log_size == 500    \* _max_log_size
max_log == 500         \* _max_log
IDLE_TIMEOUT_SECONDS == 300
stale_after == 45      \* DeviceState.is_stale: seconds without a heartbeat

\* ------------------------------------------------------------------ state
VARIABLES
  state,                 \* RoomState
  consecutive_empty, consecutive_owner, consecutive_unknown,
  monitoring,            \* _monitoring
  pc,                    \* position of the _monitor_task
  recording_intruder,    \* _recording_intruder
  record_age,            \* time.time() - _intruder_record_start
  intruder_records,      \* _intruder_records
  greeting_age,          \* time.time() - _last_owner_greeting
  greet_event_age,       \* seconds since the last owner_entered event that
                         \* carried should_greet = true (-1: none yet)
  prev_state,            \* local prev_state of the tick in progress
  tick,                  \* the tick in progress or last run: its input
  emitted,               \* events emitted by that tick, in order
  outcome,               \* how that tick ended (or "running")
  run,                   \* run length of the classification of the ticks
  greet_gap,             \* greet_event_age when owner_entered was last emitted
  scen,                  \* progress of the run along Scenario, with its events
  cb,                    \* _emit: the number of the callback in progress
  cb_threw,              \* the callback that ended last raised an exception
  loops                  \* monitor loops (tasks of _monitor_loop) alive

\* The bridge.
VARIABLES
  client,                \* self.client is not None
  connected,             \* self.connected
  session,               \* the paho client's connection to the broker
  devices,               \* self.devices
  event_handlers,        \* self._event_handlers
  message_log,           \* self._message_log
  stats,                 \* self.stats
  calls,                 \* calls the last operation made on the paho client
  invoked,               \* handler dispatches of the last message, in order
  result,                \* what the last operation returned
  last_msg               \* the last message received at the present clock,
                         \* and whether it came once or more times in a row

\* The brain.
VARIABLES
  brain_state,           \* _state
  previous_state,        \* _previous_state
  state_age,             \* time.time() - _state_enter_time
  brain_stats,           \* _stats
  event_log,             \* len(_event_log)
  transitions,           \* the _transition coroutine each task is suspended in
  notified,              \* the notifications delivered to the state-change
                         \* callback: their number, and the last one
  last_transition        \* the last call of _transition, and the state it
                         \* found

jvars == <<brain_state, previous_state, state_age, brain_stats, event_log,
           transitions, notified, last_transition>>

bvars == <<client, connected, session, devices, event_handlers, message_log,
           stats, calls, invoked, result, last_msg>>

vars == <<state, consecutive_empty, consecutive_owner, consecutive_unknown,
          monitoring, pc, recording_intruder, record_age,
          intruder_records, greeting_age, greet_event_age,
          prev_state, tick, emitted, outcome, run, greet_gap, scen,
          cb, cb_threw, loops>>

PresenceState == {"EMPTY", "OWNER_PRESENT", "UNKNOWN_PERSON", "MULTIPLE_PEOPLE"}

\* A recognized face: its role is owner, or it is a known person that is
\* not the owner, or it has the name "Unknown".
FaceKinds == {"owner", "known", "unknown"}

\* The results of recognize_faces: the faces of a frame, in one order (the
\* tick reads the kinds present and the number of faces only).
KindRank(k) == IF k = "owner" THEN 0 ELSE IF k = "known" THEN 1 ELSE 2

Recognized ==
  UNION {{r \in [1..n -> FaceKinds] :
            \A i \in 1..n, j \in 1..n :
               i < j => KindRank(r[i]) <= KindRank(r[j])} : n \in 0..MaxFaces}

\* RoomState (lines 41-49).  last_detection_time, empty_since and owner_name
\* are written by the tick and read by nothing but get_state; they are left
\* out of the state.
RoomState0 ==
  [presence |-> "EMPTY", owner_detected |-> FALSE, num_faces |-> 0,
   intruder_active |-> FALSE]

NoTick == [class |-> "nil", owner_found |-> FALSE, unknown_found |-> FALSE]

\* Time is kept as ages, which is all the service reads of the clock.  The
\* ages within the greeting cooldown are not told apart (0), nor are those
\* beyond it (Saturated): the sleeps of the loop leave an age where it is,
\* and a pause longer than the cooldown (the sleep returns late, or
\* monitoring was stopped for a while) saturates it.
Saturated == GREETING_COOLDOWN + 1

Advance(age, long) ==
  IF age < 0 THEN age ELSE IF long THEN Saturated ELSE age

\* ------------------------------------------------------- bridge: the data
\* Topics the bridge subscribes to (lines 49-76), of which the model
\* receives on five: the two heartbeats, whose handlers keep a device and
\* fire an event, two whose handlers fire an event (one reads the payload
\* first, one does not), and one whose handler keeps a device and fires no
\* event.
TOPIC_PREFIX == "vision-ai/"
TOPIC_JARVIS_CMD == TOPIC_PREFIX \o "jarvis/cmd"
TOPIC_JARVIS_STATE == TOPIC_PREFIX \o "jarvis/state"
TOPIC_JARVIS_ALERT == TOPIC_PREFIX \o "jarvis/alert"
TOPIC_JARVIS_HEARTBEAT == TOPIC_PREFIX \o "jarvis/heartbeat"
TOPIC_CAM_STATUS == TOPIC_PREFIX \o "camera/status"
TOPIC_JARVIS_CAM_HEARTBEAT == TOPIC_PREFIX \o "jarvis/camera/heartbeat"
TOPIC_JARVIS_INTRUDER == TOPIC_PREFIX \o "jarvis/intruder"
TOPIC_JARVIS_CAM_CMD == TOPIC_PREFIX \o "jarvis/camera/cmd"

Topics ==
  {TOPIC_JARVIS_HEARTBEAT, TOPIC_JARVIS_CAM_HEARTBEAT,
   TOPIC_JARVIS_INTRUDER, TOPIC_JARVIS_ALERT, TOPIC_CAM_STATUS}

\* Payloads as they come off the wire: two JSON objects, a JSON value that
\* is no object, and a text that is no JSON.
Payloads ==
  {"{}",
   "{\"device\":\"d1\",\"camera\":\"d1\",\"status\":\"online\",\"ip\":\"10.0.0.2\",\"uptime\":5}",
   "[1]",
   "oops"}

Absent == "<absent>"

\* A decoded payload: a dict with the keys the handlers read (a key that is
\* not in the dict is Absent, or -1 for uptime), or a value of another type.
EmptyDict ==
  [type |-> "dict", device |-> Absent, camera |-> Absent, status |-> Absent,
   ip |-> Absent, uptime |-> -1, raw |-> Absent]

NotADict == [EmptyDict EXCEPT !.type = "list"]

\* json.loads (line 237): the value, or "raises" for JSONDecodeError.
JsonLoads(payload) ==
  IF payload = "{}" THEN EmptyDict
  ELSE IF payload = "[1]" THEN NotADict
  ELSE IF payload = "oops" THEN [EmptyDict EXCEPT !.type = "raises"]
  ELSE [EmptyDict EXCEPT !.device = "d1", !.camera = "d1",
                         !.status = "online", !.ip = "10.0.0.2",
                         !.uptime = 5]

\* Lines 236-239.
Decode(payload) ==
  LET v == JsonLoads(payload)
  IN  IF v.type = "raises" THEN [EmptyDict EXCEPT !.raw = payload] ELSE v

\* data.get(key, default)
Missing(data, key) ==
  IF key = "uptime" THEN data.uptime < 0 ELSE data[key] = Absent

Get(data, key, default) ==
  IF Missing(data, key) THEN default ELSE data[key]

\* dev.data.update(data), line 373.
DictUpdate(old, new) ==
  [k \in DOMAIN old |->
     IF k = "type" THEN old[k]
     ELSE IF Missing(new, k) THEN old[k] ELSE new[k]]

\* Line 31: last_heartbeat = 0.0, so heartbeat_age is the age of the epoch, a
\* class of its own above the ages a heartbeat can have.
Epoch == stale_after + 2

\* DeviceState (lines 23-39).  heartbeat_age is time.time() - last_heartbeat,
\* which is all is_stale reads of it, in classes: 0 (just set), stale_after
\* (the last value that is not stale), stale_after + 1 (stale) and Epoch (no
\* heartbeat yet).  firmware is handled as ip is, rssi and free_heap as
\* uptime is; they are left out.
NewDeviceState(device_type) ==
  [device_type |-> device_type, ip |-> "", online |-> FALSE,
   heartbeat_age |-> Epoch, uptime |-> 0, data |-> EmptyDict]

\* DeviceState.is_stale, lines 37-39.
IsStale(dev) == dev.heartbeat_age > stale_after

\* Event types handlers are registered for, and the handlers: a function
\* that returns, a function that raises, or a coroutine function.
EventTypes == {"heartbeat", "intruder", "alert"}

HandlerKinds == {"returns", "throws", "coroutine"}

Stats0 ==
  [messages_received |-> 0, messages_sent |-> 0, events_routed |-> 0,
   reconnections |-> 0, errors |-> 0]

NoMsg == [topic |-> "", payload |-> "", times |-> 0]

NoResult ==
  [op |-> "none", value |-> FALSE, online |-> <<>>,
   devices_online |-> 0, devices_total |-> 0]

\* RoomPresenceService.__init__, lines 55-77.
InitPresence ==
  /\ state = RoomState0
  /\ consecutive_empty = 0
  /\ consecutive_owner = 0
  /\ consecutive_unknown = 0
  /\ monitoring = FALSE
  /\ pc = "idle"
  /\ recording_intruder = FALSE
  /\ record_age = 0
  /\ intruder_records = <<>>
  /\ greeting_age = Saturated     \* _last_owner_greeting = 0, line 62
  /\ greet_event_age = -1
  /\ prev_state = "EMPTY"
  /\ tick = NoTick
  /\ emitted = <<>>
  /\ outcome = "none"
  /\ run = [class |-> "nil", len |-> 0]
  /\ greet_gap = -1
  /\ scen = [step |-> 0, intruder |-> 0, entered |-> 0]
  /\ cb = 0
  /\ cb_threw = FALSE
  /\ loops = 0

\* MQTTBridgeService.__init__, lines 78-102.
InitBridge ==
  /\ client = FALSE
  /\ connected = FALSE
  /\ session = "none"
  /\ devices = [d \in {} |-> NewDeviceState("unknown")]
  /\ event_handlers = [e \in EventTypes |-> <<>>]
  /\ message_log = <<>>
  /\ stats = Stats0
  /\ calls = <<>>
  /\ invoked = <<>>
  /\ result = NoResult
  /\ last_msg = NoMsg

JarvisState ==
  {"INITIALIZING", "SLEEPING", "WATCHING", "OWNER_PRESENT", "LISTENING",
   "EXECUTING", "INTRUDER_ALERT", "LEARNING"}

\* The tasks that run _transition: the monitor task of the presence service
\* (in the brain's handlers), the brain's main loop, and a task of the
\* server (an API request, the task of the MQTT intruder handler).
Tasks == {"monitor", "main", "request"}

\* stage: "none", "entering" (suspended in _on_state_enter) or "notifying"
\* (suspended in the state-change callback); seq: the number of the state
\* change.
NoTransition ==
  [stage |-> "none", old |-> "INITIALIZING", new |-> "INITIALIZING",
   seq |-> 0]

NoCall == [task |-> "", new |-> "INITIALIZING", found |-> "INITIALIZING"]

\* JarvisBrain.__init__, lines 39-68.
InitBrain ==
  /\ brain_state = "INITIALIZING"
  /\ previous_state = "INITIALIZING"
  /\ state_age = 0
  /\ brain_stats = [owner_greetings |-> 0, intruder_alerts |-> 0,
                    state_changes |-> 0]
  /\ event_log = 0
  /\ transitions = [k \in Tasks |-> NoTransition]
  /\ notified = [count |-> 0, seq |-> 0, from |-> "", to |-> ""]
  /\ last_transition = NoCall

Init == InitPresence /\ InitBridge /\ InitBrain

\* ------------------------------------------------------ _check_presence
\* Line 134, camera_service.get_latest_frame(): CameraService (camera_service.py)
\* defines get_frame and no get_latest_frame, so on the CameraService of
\* the repository the call raises AttributeError on every tick.  The call
\* is modelled by the collaborator interface the service is written
\* against, getFrame() -> Frame | null: it returns no frame, returns a
\* frame, or raises.
FrameOutcomes == {"none", "frame", "raises"}

\* Lines 143-150: the two flags of the tick.
OwnerFound(recognized) ==
  \E i \in DOMAIN recognized : recognized[i] = "owner"

UnknownFound(recognized) ==
  \E i \in DOMAIN recognized : recognized[i] = "unknown"

\* The branch of lines 153-165 the tick takes ("none": faces, but neither an
\* owner nor an unknown one, which no branch handles).
Classify(recognized) ==
  IF Len(recognized) = 0 THEN "empty"
  ELSE IF OwnerFound(recognized) THEN "owner"
  ELSE IF UnknownFound(recognized) THEN "unknown"
  ELSE "none"

\* Lines 153-165: the three run-length counters after the tick.
UpdateCounters(recognized, e, o, u) ==
  IF Len(recognized) = 0
    THEN [e |-> e + 1, o |-> 0, u |-> 0]
  ELSE IF OwnerFound(recognized)
    THEN [e |-> 0, o |-> o + 1,
          u |-> IF ~UnknownFound(recognized) THEN 0 ELSE u]
  ELSE IF UnknownFound(recognized)
    THEN [e |-> 0, o |-> 0, u |-> u + 1]
  ELSE [e |-> e, o |-> o, u |-> u]

Ev(name) == [name |-> name, should_greet |-> FALSE]

\* _emit, lines 87-94: the callbacks of the event are run in the order of
\* their registration; the task is suspended in the first of them.
Emit(s, ev) ==
  [s EXCEPT !.emitted = Append(@, ev), !.pc = "cb_" \o ev.name, !.cb = 1]

\* Lines 279-288.
StopIntruderRecording(s) ==
  IF s.recording_intruder
    THEN [s EXCEPT
            !.recording_intruder = FALSE,
            !.intruder_records =
               IF Len(@) > 0
                 THEN [@ EXCEPT ![Len(@)].duration_seconds = s.record_age]
                 ELSE @]
    ELSE s

\* Lines 269-277.
StartIntruderRecording(s) ==
  [s EXCEPT !.recording_intruder = TRUE, !.record_age = 0]

\* (mutant) the call of line 248 returns.
CaptureIntruderReturns == FALSE

\* Line 248 calls face_service.capture_intruder(frame); the method is
\* capture_intruder(self, frame, location) with no default for location,
\* so the call raises TypeError.
CaptureIntruderRaises == TRUE

\* Lines 200-205, and the return of _check_presence to the loop's sleep.
PresenceChanged(s, prev) ==
  IF s.state.presence # prev
    THEN Emit(s, Ev("presence_changed"))
    ELSE [s EXCEPT !.pc = "waiting", !.outcome = "complete"]

\* (mutant) the room empties without the intruder flag being cleared.
OnRoomEmptyKeepsIntruder(s) ==
  Emit(IF s.recording_intruder THEN StopIntruderRecording(s) ELSE s,
       Ev("room_empty"))

\* Lines 229-238, up to the emission of room_empty.
OnRoomEmpty(s) ==
  LET s1 == IF s.recording_intruder THEN StopIntruderRecording(s) ELSE s
      s2 == [s1 EXCEPT !.state.intruder_active = FALSE]
  IN  Emit(s2, Ev("room_empty"))

\* Line 213.
ShouldGreet(age) == age > GREETING_COOLDOWN

\* Lines 210-224, up to the emission of owner_entered.
OnOwnerEntered(s) ==
  LET s1 == IF s.recording_intruder THEN StopIntruderRecording(s) ELSE s
  IN  Emit(s1, [name |-> "owner_entered",
                should_greet |-> ShouldGreet(s.greeting_age)])

\* Lines 243-267, up to the emission of intruder_detected; an exception
\* leaves _check_presence and is caught by the loop (lines 128-130).
OnIntruderDetected(s) ==
  IF CaptureIntruderRaises
    THEN [s EXCEPT !.pc = "waiting", !.outcome = "raised"]
    ELSE LET started == ~s.recording_intruder
             s1 == IF started THEN StartIntruderRecording(s) ELSE s
             s2 == [s1 EXCEPT !.intruder_records =
                       Append(@, [video |-> started, duration_seconds |-> 0])]
         IN  Emit(s2, Ev("intruder_detected"))

\* (mutant) the room empties and the owner flag stays.
RoomEmptiedKeepsOwner(s) ==
  [s EXCEPT !.state.presence = "EMPTY", !.state.num_faces = 0]

\* Lines 171-173: the RoomState of the empty room.
RoomEmptied(s) ==
  [s EXCEPT !.state.presence = "EMPTY",
            !.state.owner_detected = FALSE,
            !.state.num_faces = 0]

\* (mutant) the owner counts as entering whenever presence is not
\* OWNER_PRESENT.
OwnerNotPresent(s) == s.state.presence # "OWNER_PRESENT"

\* Line 184: the owner enters only if no owner was detected before.
OwnerIsNew(s) == ~s.state.owner_detected

\* Lines 167-198: the transition logic, with c the counters after the update.
Transition(s, recognized, c) ==
  LET num_faces == Len(recognized) IN
  IF c.e >= stability_count THEN
    IF s.state.presence # "EMPTY"
      THEN OnRoomEmpty(RoomEmptied(s))
      ELSE PresenceChanged(s, s.state.presence)
  ELSE IF c.o >= stability_count THEN
    LET s1 == [s EXCEPT !.state.num_faces = num_faces] IN
    IF num_faces > 1 /\ UnknownFound(recognized)
      THEN PresenceChanged(
             [s1 EXCEPT !.state.presence = "MULTIPLE_PEOPLE",
                        !.state.owner_detected = TRUE], s.state.presence)
    ELSE IF OwnerIsNew(s)
      THEN OnOwnerEntered(
             [s1 EXCEPT !.state.presence = "OWNER_PRESENT",
                        !.state.owner_detected = TRUE])
    ELSE PresenceChanged(s1, s.state.presence)
  ELSE IF c.u >= stability_count THEN
    IF ~s.state.owner_detected
      THEN OnIntruderDetected(
             [s EXCEPT !.state.presence = "UNKNOWN_PERSON",
                       !.state.num_faces = num_faces,
                       !.state.intruder_active = TRUE])
      ELSE PresenceChanged(s, s.state.presence)
  ELSE PresenceChanged(s, s.state.presence)

\* ------------------------------------------------------------ observers
Count(name, events) ==
  Cardinality({i \in DOMAIN events : events[i].name = name})

AllOf(kind, recognized) ==
  /\ Len(recognized) > 0
  /\ \A i \in DOMAIN recognized : recognized[i] = kind

\* The example scenario of the specification: stability_count ticks with
\* unknown faces only, then stability_count ticks with the owner only.
ScenarioKind(step) == IF step <= stability_count THEN "unknown" ELSE "owner"

ScenOff == [step |-> -1, intruder |-> 0, entered |-> 0]

ScenNext(sc, recognized, events) ==
  IF /\ sc.step >= 0
     /\ sc.step < 2 * stability_count
     /\ AllOf(ScenarioKind(sc.step + 1), recognized)
    THEN [step |-> sc.step + 1,
          intruder |-> sc.intruder + Count("intruder_detected", events),
          entered |-> sc.entered + Count("owner_entered", events)]
    ELSE ScenOff

\* ------------------------------------------------------------ the actions
Svc ==
  [state |-> state, recording_intruder |-> recording_intruder,
   record_age |-> record_age, intruder_records |-> intruder_records,
   greeting_age |-> greeting_age, emitted |-> emitted, pc |-> pc,
   outcome |-> outcome, cb |-> cb]

Apply(s) ==
  /\ state' = s.state
  /\ recording_intruder' = s.recording_intruder
  /\ record_age' = s.record_age
  /\ intruder_records' = s.intruder_records
  /\ greeting_age' = s.greeting_age
  /\ emitted' = s.emitted
  /\ pc' = s.pc
  /\ outcome' = s.outcome
  /\ cb' = s.cb

CallbackPcs ==
  {"cb_room_empty", "cb_owner_left", "cb_owner_entered",
   "cb_intruder_detected", "cb_presence_changed"}

\* (mutant) a missing frame is counted as an empty one.
NoFrameAsEmpty(e, o, u) == [e |-> e + 1, o |-> 0, u |-> 0]

\* Lines 135-136: no frame, _check_presence returns at once.
NoFrameCounters(e, o, u) == [e |-> e, o |-> o, u |-> u]

\* The event a tick emitted last.
LastEvent(s) == s.emitted[Len(s.emitted)]

GreetingEmitted(s) ==
  /\ Len(s.emitted) > 0
  /\ LastEvent(s).name = "owner_entered"
  /\ LastEvent(s).should_greet

\* (mutant) start_monitoring never finds the service monitoring.
NeverMonitoring == FALSE

\* Lines 103-104: start_monitoring returns at once.
AlreadyMonitoring == monitoring

\* start_monitoring, lines 101-107.
StartMonitoring ==
  /\ IF AlreadyMonitoring
       THEN UNCHANGED <<monitoring, pc, loops>>
       ELSE monitoring' = TRUE /\ pc' = "waiting" /\ loops' = loops + 1
  /\ UNCHANGED <<state, consecutive_empty, consecutive_owner,
                 consecutive_unknown, recording_intruder, record_age,
                 intruder_records, greeting_age, greet_event_age,
                 prev_state, tick, emitted, outcome, run, greet_gap, scen,
                 cb, cb_threw>>
  /\ UNCHANGED <<bvars, jvars>>

\* stop_monitoring, lines 109-118: the task is cancelled wherever it is
\* suspended.  CancelledError is no Exception, so neither _emit (line 95)
\* nor the callbacks catch it: a tick suspended in a callback is abandoned.
StopMonitoring ==
  /\ monitoring' = FALSE
  /\ pc' = IF pc = "idle" THEN "idle" ELSE "done"
  /\ outcome' = IF pc \in CallbackPcs THEN "cancelled" ELSE outcome
  /\ cb' = 0
  /\ cb_threw' = FALSE
  /\ loops' = IF pc \in {"idle", "done"} THEN loops ELSE loops - 1
  /\ UNCHANGED <<state, consecutive_empty, consecutive_owner,
                 consecutive_unknown, recording_intruder, record_age,
                 intruder_records, greeting_age, greet_event_age,
                 prev_state, tick, emitted, run, greet_gap, scen>>
  /\ UNCHANGED <<bvars, jvars>>

\* One iteration of _monitor_loop (lines 120-130) from the end of its sleep
\* to the first suspension of _check_presence (lines 132-205): the sleep was
\* a long one or not, the capture has one of outcomes, the recognition
\* returns one of faces.
Tick(longs, outcomes, faces) ==
  /\ monitoring
  /\ pc = "waiting"
  /\ cb_threw' = FALSE
  /\ UNCHANGED loops
  /\ \E long \in longs :
       LET s0 == [Svc EXCEPT !.emitted = <<>>,
                             !.greeting_age = Advance(@, long),
                             !.record_age = Advance(@, long)]
       IN
       /\ long => 0 \in {greeting_age, greet_event_age}
       /\ UNCHANGED monitoring
       /\ \E frame \in outcomes :
          \/ \* line 134-136: no frame
             /\ frame = "none"
             /\ LET c == NoFrameCounters(consecutive_empty,
                                         consecutive_owner,
                                         consecutive_unknown)
                IN  /\ consecutive_empty' = c.e
                    /\ consecutive_owner' = c.o
                    /\ consecutive_unknown' = c.u
                    /\ c.e <= MaxCount
             /\ Apply([s0 EXCEPT !.pc = "waiting", !.outcome = "skipped"])
             /\ greet_event_age' = Advance(greet_event_age, long)
             /\ tick' = NoTick
             /\ UNCHANGED <<prev_state, run, greet_gap, scen>>
          \/ \* lines 134, 139: the capture or the recognition raises, and
             \* the loop catches it (lines 128-130)
             /\ frame = "raises"
             /\ Apply([s0 EXCEPT !.pc = "waiting", !.outcome = "failed"])
             /\ greet_event_age' = Advance(greet_event_age, long)
             /\ tick' = NoTick
             /\ UNCHANGED <<consecutive_empty, consecutive_owner,
                            consecutive_unknown, prev_state, run, greet_gap,
                            scen>>
          \/ /\ frame = "frame"
             /\ \E recognized \in faces :
               LET c == UpdateCounters(recognized, consecutive_empty,
                                       consecutive_owner, consecutive_unknown)
                   class == Classify(recognized)
                   s1 == Transition([s0 EXCEPT !.outcome = "running"],
                                    recognized, c)
               IN
               /\ c.e <= MaxCount /\ c.o <= MaxCount /\ c.u <= MaxCount
               /\ Len(intruder_records) < MaxRecords
               /\ consecutive_empty' = c.e
               /\ consecutive_owner' = c.o
               /\ consecutive_unknown' = c.u
               /\ prev_state' = state.presence
               /\ tick' = [class |-> class,
                           owner_found |-> OwnerFound(recognized),
                           unknown_found |-> UnknownFound(recognized)]
               /\ run' = IF class = run.class
                           THEN [run EXCEPT !.len =
                                   IF @ < stability_count THEN @ + 1 ELSE @]
                           ELSE [class |-> class, len |-> 1]
               /\ Apply(s1)
               /\ greet_event_age' = IF GreetingEmitted(s1) THEN 0
                                     ELSE Advance(greet_event_age, long)
               /\ greet_gap' = IF Count("owner_entered", s1.emitted) > 0
                                 THEN Advance(greet_event_age, long)
                                 ELSE greet_gap
               /\ scen' = ScenNext(scen, recognized, s1.emitted)

MonitorTick ==
  /\ Tick(BOOLEAN, FrameOutcomes, Recognized)
  /\ UNCHANGED <<bvars, jvars>>

\* _emit has returned: the tick goes on to its next suspension or to its
\* end.
AfterEmit(s, prev) ==
  LET s0 == [s EXCEPT !.cb = 0] IN
  CASE s.pc = "cb_room_empty" ->          \* lines 239-241
         Emit(s0, Ev("owner_left"))
    [] s.pc = "cb_owner_left" ->
         PresenceChanged(s0, prev)
    [] s.pc = "cb_owner_entered" ->       \* lines 226-227
         PresenceChanged(
           IF LastEvent(s0).should_greet
             THEN [s0 EXCEPT !.greeting_age = 0]
             ELSE s0, prev)
    [] s.pc = "cb_intruder_detected" ->
         PresenceChanged(s0, prev)
    [] OTHER ->                           \* presence_changed: line 205
         [s0 EXCEPT !.pc = "waiting", !.outcome = "complete"]

\* Line 89: _emit goes on to the next callback of the event, if there is one.
NextCallback(s, prev) ==
  IF s.cb < MaxCallbacks
    THEN [s EXCEPT !.cb = @ + 1]
    ELSE AfterEmit(s, prev)

\* (mutant) the exception of a callback leaves _emit and _check_presence,
\* and the loop catches it.
CallbackPropagates(s, prev) ==
  [s EXCEPT !.pc = "waiting", !.cb = 0, !.outcome = "raised"]

\* Lines 95-96: the exception of a callback is caught and logged.
CallbackRaised(s, prev) == NextCallback(s, prev)

\* The callback the task is suspended in ends: it returns or raises.
Returned ==
  /\ pc \in CallbackPcs
  /\ \E how \in {"returns", "raises"} :
       /\ cb_threw' = (how = "raises")
       /\ Apply(IF how = "raises"
                  THEN CallbackRaised(Svc, prev_state)
                  ELSE NextCallback(Svc, prev_state))
  /\ UNCHANGED <<consecutive_empty, consecutive_owner, consecutive_unknown,
                 monitoring, greet_event_age, prev_state, tick, run,
                 greet_gap, scen, loops>>

Resume ==
  /\ Returned
  /\ UNCHANGED <<bvars, jvars>>

Next ==
  \/ StartMonitoring
  \/ StopMonitoring
  \/ MonitorTick
  \/ Resume

Spec == Init /\ [][Next]_<<vars, bvars, jvars>>

\* ===================================================== the MQTT bridge
Bridge ==
  [client |-> client, connected |-> connected, session |-> session,
   devices |-> devices, event_handlers |-> event_handlers,
   message_log |-> message_log, stats |-> stats, calls |-> calls,
   invoked |-> invoked, result |-> result]

ApplyBridge(b) ==
  /\ client' = b.client
  /\ connected' = b.connected
  /\ session' = b.session
  /\ devices' = b.devices
  /\ event_handlers' = b.event_handlers
  /\ message_log' = b.message_log
  /\ stats' = b.stats
  /\ calls' = b.calls
  /\ invoked' = b.invoked
  /\ result' = b.result

\* The bridge at the start of an operation: what the last one left behind
\* for the observers is cleared.
Fresh == [Bridge EXCEPT !.calls = <<>>, !.invoked = <<>>, !.result = NoResult]

\* ------------------------------------------------------------ _fire_event
\* Line 117, asyncio.get_event_loop() for a coroutine function: _fire_event
\* runs in _on_message, which the paho client calls on the network thread
\* that loop_start (line 156) started; that thread has no event loop, so
\* get_event_loop() raises RuntimeError before handler(data) is evaluated.
\* Lines 115-123, one handler: how its dispatch ends.
Dispatch(kind) ==
  IF kind = "returns" THEN "returned"
  ELSE IF kind = "throws" THEN "threw"
  ELSE "no_event_loop"

\* Lines 113-123: the handlers of the event type from the i-th on.
RECURSIVE FireFrom(_, _, _)
FireFrom(b, event_type, i) ==
  LET handlers == b.event_handlers[event_type] IN
  IF i > Len(handlers) THEN b
  ELSE LET how == Dispatch(handlers[i])
           b1 == [b EXCEPT !.invoked =
                     Append(@, [event |-> event_type, handler |-> i,
                                how |-> how])]
       IN  FireFrom(
             IF how = "returned"
               THEN [b1 EXCEPT !.stats.events_routed = @ + 1]
               ELSE [b1 EXCEPT !.stats.errors = @ + 1],
             event_type, i + 1)

FireEvent(b, event_type) ==
  IF event_type \in EventTypes THEN FireFrom(b, event_type, 1) ELSE b

\* register_handler, lines 104-109.
RegisterHandlerOp(b, event_type, kind) ==
  [b EXCEPT !.event_handlers[event_type] = Append(@, kind)]

\* ---------------------------------------------------------------- publish
\* What client.publish (line 391) does: it returns MQTT_ERR_SUCCESS, returns
\* another code, or raises.
PublishOutcomes == {"success", "error", "raises"}

\* json.dumps of the dicts the bridge publishes (line 385); the timestamp of
\* a status message is left out.
JsonDumps(data) ==
  IF data = "offline"
    THEN "{\"service\":\"jarvis-bridge\",\"status\":\"offline\"}"
  ELSE IF data = "online"
    THEN "{\"service\":\"jarvis-bridge\",\"status\":\"online\",\"subscriptions\":20}"
  ELSE "{\"command\":\"" \o data \o "\"}"

\* (mutant) a publish call that reports an error is made a second time.
PublishRetries(b, topic, data, out) ==
  IF ~b.client \/ ~b.connected
    THEN [b EXCEPT !.result = [NoResult EXCEPT !.op = "publish"]]
  ELSE
    LET c == [op |-> "publish", topic |-> topic,
              payload |-> JsonDumps(data), how |-> out]
    IN  IF out = "raises"
          THEN [b EXCEPT !.calls = Append(@, c),
                         !.stats.errors = @ + 1,
                         !.result = [NoResult EXCEPT !.op = "publish"]]
        ELSE IF out = "error"
          THEN [b EXCEPT !.calls = @ \o <<c, c>>,
                         !.stats.messages_sent = @ + 1,
                         !.result = [NoResult EXCEPT !.op = "publish"]]
        ELSE [b EXCEPT !.calls = Append(@, c),
                       !.stats.messages_sent = @ + 1,
                       !.result = [NoResult EXCEPT !.op = "publish",
                                                   !.value = TRUE]]

\* publish, lines 377-397.
Publish(b, topic, data, out) ==
  IF ~b.client \/ ~b.connected
    THEN [b EXCEPT !.result = [NoResult EXCEPT !.op = "publish"]]
  ELSE
    LET b1 == [b EXCEPT !.calls =
                 Append(@, [op |-> "publish", topic |-> topic,
                            payload |-> JsonDumps(data), how |-> out])]
    IN  IF out = "raises"
          THEN [b1 EXCEPT !.stats.errors = @ + 1,
                          !.result = [NoResult EXCEPT !.op = "publish"]]
          ELSE [b1 EXCEPT !.stats.messages_sent = @ + 1,
                          !.result = [NoResult EXCEPT
                                        !.op = "publish",
                                        !.value = (out = "success")]]

\* send_command, lines 399-404.
SendCommandOp(b, command, out) == Publish(b, TOPIC_JARVIS_CMD, command, out)

\* send_camera_command, lines 406-411.
SendCameraCommandOp(b, command, out) ==
  Publish(b, TOPIC_JARVIS_CAM_CMD, command, out)

Call(op) == [op |-> op, topic |-> "", payload |-> "", how |-> ""]

\* ------------------------------------------------------- connect/disconnect
\* connect, lines 125-162, with paho-mqtt installed.  out is what
\* client.connect (line 155) does.
ConnectOp(b, out) ==
  IF out = "raises"
    THEN [b EXCEPT !.client = TRUE, !.session = "none",
                   !.calls = <<Call("connect")>>,
                   !.stats.errors = @ + 1,
                   !.result = [NoResult EXCEPT !.op = "connect"]]
    ELSE [b EXCEPT !.client = TRUE, !.session = "connecting",
                   !.calls = <<Call("connect"), Call("loop_start")>>,
                   !.result = [NoResult EXCEPT !.op = "connect",
                                               !.value = TRUE]]

\* (mutant) disconnect publishes after the loop is stopped and the
\* connection closed, with connected already false.
DisconnectClosesFirst(b, out) ==
  IF b.client
    THEN [Publish([b EXCEPT !.calls = @ \o <<Call("loop_stop"),
                                             Call("disconnect")>>,
                            !.connected = FALSE, !.session = "closed"],
                  TOPIC_JARVIS_STATE, "offline", out)
            EXCEPT !.result = [NoResult EXCEPT !.op = "disconnect"]]
    ELSE [b EXCEPT !.result = [NoResult EXCEPT !.op = "disconnect"]]

\* disconnect, lines 164-176.
DisconnectOp(b, out) ==
  IF b.client
    THEN LET b1 == Publish(b, TOPIC_JARVIS_STATE, "offline", out)
         IN  [b1 EXCEPT !.calls = @ \o <<Call("loop_stop"),
                                         Call("disconnect")>>,
                        !.connected = FALSE,
                        !.session = "closed",
                        !.result = [NoResult EXCEPT !.op = "disconnect"]]
    ELSE [b EXCEPT !.result = [NoResult EXCEPT !.op = "disconnect"]]

\* _on_connect, lines 178-219.
OnConnectOp(b, rc, out) ==
  IF rc = 0
    THEN LET b1 == [b EXCEPT !.connected = TRUE,
                             !.session = "established",
                             !.calls = Append(@, Call("subscribe"))]
         IN  [Publish(b1, TOPIC_JARVIS_STATE, "online", out)
                EXCEPT !.result = NoResult]
    ELSE [b EXCEPT !.stats.errors = @ + 1]

\* _on_disconnect, lines 221-226.
OnDisconnectOp(b, rc) ==
  LET b1 == [b EXCEPT !.connected = FALSE, !.session = "lost"]
  IN  IF rc # 0 THEN [b1 EXCEPT !.stats.reconnections = @ + 1] ELSE b1

\* ------------------------------------------------------------- _on_message
\* (mutant) a heartbeat adds its uptime to the one kept.
UptimeAdded(dev, data) == dev.uptime + Get(data, "uptime", 0)

\* Lines 298, 313.
UptimeOf(dev, data) == Get(data, "uptime", 0)

\* _handle_server_heartbeat / _handle_cam_heartbeat, lines 289-317, up to
\* the _fire_event.
Heartbeat(b, data, device_type, default_id) ==
  LET device_id == Get(data, "device", default_id)
      dev == IF device_id \in DOMAIN b.devices
               THEN b.devices[device_id]
               ELSE NewDeviceState(device_type)
      dev1 == [dev EXCEPT !.online = TRUE,
                          !.heartbeat_age = 0,
                          !.ip = Get(data, "ip", dev.ip),
                          !.uptime = UptimeOf(dev, data),
                          !.data = data]
  IN  [b EXCEPT !.devices =
         [d \in DOMAIN b.devices \cup {device_id} |->
            IF d = device_id THEN dev1 ELSE b.devices[d]]]

\* (mutant) a camera status counts as a heartbeat.
CamStatusBeats(b, data) ==
  LET device_id == Get(data, "camera", "esp32-cam")
      dev == IF device_id \in DOMAIN b.devices
               THEN b.devices[device_id]
               ELSE NewDeviceState("camera")
      dev1 == [dev EXCEPT !.online = (data.status = "online"),
                          !.heartbeat_age = 0,
                          !.ip = Get(data, "ip", dev.ip),
                          !.data = DictUpdate(dev.data, data)]
  IN  [b EXCEPT !.devices =
         [d \in DOMAIN b.devices \cup {device_id} |->
            IF d = device_id THEN dev1 ELSE b.devices[d]]]

\* _handle_cam_status, lines 365-373.
CamStatus(b, data) ==
  LET device_id == Get(data, "camera", "esp32-cam")
      dev == IF device_id \in DOMAIN b.devices
               THEN b.devices[device_id]
               ELSE NewDeviceState("camera")
      dev1 == [dev EXCEPT !.online = (data.status = "online"),
                          !.ip = Get(data, "ip", dev.ip),
                          !.data = DictUpdate(dev.data, data)]
  IN  [b EXCEPT !.devices =
         [d \in DOMAIN b.devices \cup {device_id} |->
            IF d = device_id THEN dev1 ELSE b.devices[d]]]

\* The event type the handler of a topic fires ("" for none).
EventOf(topic) ==
  IF topic \in {TOPIC_JARVIS_HEARTBEAT, TOPIC_JARVIS_CAM_HEARTBEAT}
    THEN "heartbeat"
  ELSE IF topic = TOPIC_JARVIS_INTRUDER THEN "intruder"
  ELSE IF topic = TOPIC_JARVIS_ALERT THEN "alert"
  ELSE ""

\* The handlers of the topics that call data.get (lines 290, 305, 324,
\* 366), which a value that is no dict does not have: AttributeError.
ReadsDict(topic) ==
  topic \in {TOPIC_JARVIS_HEARTBEAT, TOPIC_JARVIS_CAM_HEARTBEAT,
             TOPIC_JARVIS_INTRUDER, TOPIC_CAM_STATUS}

\* Lines 251-281: the handler of the topic; an exception is caught by
\* _on_message (lines 283-285).
Route(b, topic, data) ==
  IF ReadsDict(topic) /\ data.type # "dict"
    THEN [b EXCEPT !.stats.errors = @ + 1]
  ELSE IF topic = TOPIC_JARVIS_HEARTBEAT
    THEN FireEvent(Heartbeat(b, data, "server", "esp32-server"), "heartbeat")
  ELSE IF topic = TOPIC_JARVIS_CAM_HEARTBEAT
    THEN FireEvent(Heartbeat(b, data, "camera", "esp32-cam"), "heartbeat")
  ELSE IF topic = TOPIC_CAM_STATUS
    THEN CamStatus(b, data)
  ELSE FireEvent(b, EventOf(topic))

\* (mutant) a full log keeps its oldest entries.
LogKeepsOldest(log, entry) ==
  LET l == Append(log, entry)
  IN  IF Len(l) > max_log_size THEN SubSeq(l, 1, max_log_size) ELSE l

\* Lines 247-249.
LogAppend(log, entry) ==
  LET l == Append(log, entry)
  IN  IF Len(l) > max_log_size
        THEN SubSeq(l, Len(l) - max_log_size + 1, Len(l))
        ELSE l

\* _on_message, lines 228-285.  The timestamp of a log entry is the number
\* of the message in the order of arrival.
OnMessageOp(b, topic, payload) ==
  LET n == b.stats.messages_received + 1
      data == Decode(payload)
      b1 == [b EXCEPT !.stats.messages_received = n,
                      !.message_log =
                         LogAppend(@, [topic |-> topic, data |-> data,
                                       timestamp |-> n])]
  IN  Route(b1, topic, data)

\* --------------------------------------------------------- state queries
\* (mutant) the stored flag is reported as it is.
StoredOnline(dev) == dev.online

\* One entry of get_device_state / get_all_devices: lines 456, 473.
ReportedOnline(dev) == dev.online /\ ~IsStale(dev)

\* get_device_state, lines 450-465 (value: a device was found).
GetDeviceStateOp(b, device_id) ==
  IF device_id \in DOMAIN b.devices
    THEN [b EXCEPT !.result =
            [NoResult EXCEPT
               !.op = "get_device_state", !.value = TRUE,
               !.online = [d \in {device_id} |->
                             ReportedOnline(b.devices[d])]]]
    ELSE [b EXCEPT !.result =
            [NoResult EXCEPT
               !.op = "get_device_state",
               !.online = [d \in {} |-> FALSE]]]

\* get_all_devices, lines 467-479.
GetAllDevicesOp(b) ==
  [b EXCEPT !.result =
     [NoResult EXCEPT
        !.op = "get_all_devices", !.value = TRUE,
        !.online = [d \in DOMAIN b.devices |->
                      ReportedOnline(b.devices[d])]]]

\* get_stats, lines 487-495: the two device counts.
GetStatsOp(b) ==
  [b EXCEPT !.result =
     [NoResult EXCEPT
        !.op = "get_stats", !.value = TRUE,
        !.devices_online =
           Cardinality({d \in DOMAIN b.devices :
                          ReportedOnline(b.devices[d])}),
        !.devices_total = Cardinality(DOMAIN b.devices)]]

\* ------------------------------------------------------ the bridge's actions
DeviceIds == {"esp32-server", "esp32-cam", "d1"}

NumHandlers ==
  Len(event_handlers["heartbeat"]) + Len(event_handlers["intruder"])
    + Len(event_handlers["alert"])

RegisterHandler ==
  /\ NumHandlers < MaxHandlers
  /\ \E event_type \in EventTypes, kind \in HandlerKinds :
       ApplyBridge(RegisterHandlerOp(Fresh, event_type, kind))
  /\ UNCHANGED <<vars, jvars, last_msg>>

\* connect() is called on a bridge without a live client: at start-up, or
\* after a disconnect().
Connect ==
  /\ session \in {"none", "closed"}
  /\ \E out \in {"ok", "raises"} :
       /\ out = "raises" => stats.errors < MaxErrors
       /\ ApplyBridge(ConnectOp(Fresh, out))
  /\ UNCHANGED <<vars, jvars, last_msg>>

\* The network thread delivers the broker's answer to a connection attempt
\* (the first, or one of paho's reconnections).
OnConnect ==
  /\ session \in {"connecting", "lost"}
  /\ \E rc \in {0, 5}, out \in PublishOutcomes :
       /\ rc # 0 => stats.errors < MaxErrors
       /\ rc # 0 => out = "success"
       /\ rc = 0 /\ out = "raises" => stats.errors < MaxErrors
       /\ rc = 0 /\ out # "raises" => stats.messages_sent < MaxSent
       /\ ApplyBridge(OnConnectOp(Fresh, rc, out))
  /\ UNCHANGED <<vars, jvars, last_msg>>

\* The network thread finds the connection lost.
OnDisconnect ==
  /\ session = "established"
  /\ stats.reconnections < MaxReconnections
  /\ ApplyBridge(OnDisconnectOp(Fresh, 7))
  /\ UNCHANGED <<vars, jvars, last_msg>>

Disconnect ==
  /\ \E out \in PublishOutcomes :
       /\ (client /\ connected /\ out = "raises") => stats.errors < MaxErrors
       /\ (client /\ connected /\ out # "raises")
            => stats.messages_sent < MaxSent
       /\ (~client \/ ~connected) => out = "success"
       /\ ApplyBridge(DisconnectOp(Fresh, out))
  /\ UNCHANGED <<vars, jvars, last_msg>>

SendCommand ==
  /\ \E out \in PublishOutcomes :
       /\ (client /\ connected /\ out = "raises") => stats.errors < MaxErrors
       /\ (client /\ connected /\ out # "raises")
            => stats.messages_sent < MaxSent
       /\ (~client \/ ~connected) => out = "success"
       /\ ApplyBridge(SendCommandOp(Fresh, "lock", out))
  /\ UNCHANGED <<vars, jvars, last_msg>>

SendCameraCommand ==
  /\ \E out \in PublishOutcomes :
       /\ (client /\ connected /\ out = "raises") => stats.errors < MaxErrors
       /\ (client /\ connected /\ out # "raises")
            => stats.messages_sent < MaxSent
       /\ (~client \/ ~connected) => out = "success"
       /\ ApplyBridge(SendCameraCommandOp(Fresh, "capture", out))
  /\ UNCHANGED <<vars, jvars, last_msg>>

\* The network thread delivers a message of a subscribed topic.
Receive ==
  /\ session = "established"
  /\ stats.messages_received < MaxMessages
  /\ \E topic \in Topics, payload \in Payloads :
       LET b == OnMessageOp(Fresh, topic, payload)
       IN  /\ b.stats.errors <= MaxErrors
           /\ ApplyBridge(b)
           /\ last_msg' =
                [topic |-> topic, payload |-> payload,
                 times |-> IF last_msg.topic = topic
                              /\ last_msg.payload = payload THEN 2 ELSE 1]
  /\ UNCHANGED <<vars, jvars>>

\* Time passes: every heartbeat age moves on to its next class.
Elapse ==
  /\ \E d \in DOMAIN devices : devices[d].heartbeat_age <= stale_after
  /\ devices' = [d \in DOMAIN devices |->
       [devices[d] EXCEPT !.heartbeat_age =
          IF @ < stale_after THEN stale_after
          ELSE IF @ = stale_after THEN stale_after + 1
          ELSE @]]
  /\ last_msg' = NoMsg
  /\ result' = NoResult
  /\ UNCHANGED <<vars, jvars, client, connected, session, event_handlers,
                 message_log, stats, calls, invoked>>

GetDeviceState ==
  /\ \E device_id \in DeviceIds :
       ApplyBridge(GetDeviceStateOp(Fresh, device_id))
  /\ UNCHANGED <<vars, jvars, last_msg>>

GetAllDevices ==
  /\ ApplyBridge(GetAllDevicesOp(Fresh))
  /\ UNCHANGED <<vars, jvars, last_msg>>

GetStats ==
  /\ ApplyBridge(GetStatsOp(Fresh))
  /\ UNCHANGED <<vars, jvars, last_msg>>

\* connect/disconnect, the client's connection callbacks and the commands,
\* from the bridge as constructed.
ConnNext ==
  \/ Connect
  \/ OnConnect
  \/ OnDisconnect
  \/ Disconnect
  \/ SendCommand
  \/ SendCameraCommand

ConnSpec == Init /\ [][ConnNext]_<<vars, bvars, jvars>>

\* The bridge after the start-up of the API (api.py, line 118): connect()
\* has returned, the broker has accepted the connection and the online
\* status has been published.
Connected ==
  /\ InitPresence
  /\ InitBrain
  /\ client = TRUE
  /\ connected = TRUE
  /\ session = "established"
  /\ devices = [d \in {} |-> NewDeviceState("unknown")]
  /\ event_handlers = [e \in EventTypes |-> <<>>]
  /\ message_log = <<>>
  /\ stats = [Stats0 EXCEPT !.messages_sent = 1]
  /\ calls = <<>>
  /\ invoked = <<>>
  /\ result = NoResult
  /\ last_msg = NoMsg

\* The device registry: messages of the devices, the passing of time, and
\* the state queries.
DeviceNext ==
  \/ Receive
  \/ Elapse
  \/ GetDeviceState
  \/ GetAllDevices
  \/ GetStats

DeviceSpec == Connected /\ [][DeviceNext]_<<vars, bvars, jvars>>

\* The handler registry: registrations and messages.
DispatchNext ==
  \/ RegisterHandler
  \/ Receive

DispatchSpec == Connected /\ [][DispatchNext]_<<vars, bvars, jvars>>

\* A bridge that receives a long stream of messages of one kind.
Flood ==
  /\ session = "established"
  /\ stats.messages_received < MaxFlood
  /\ ApplyBridge(OnMessageOp(Fresh, TOPIC_JARVIS_ALERT, "{}"))
  /\ last_msg' = [topic |-> TOPIC_JARVIS_ALERT, payload |-> "{}",
                  times |-> IF last_msg.times = 0 THEN 1 ELSE 2]
  /\ UNCHANGED <<vars, jvars>>

LogNext == Flood

LogSpec == Connected /\ [][LogNext]_<<vars, bvars, jvars>>

\* ============================================================ the brain
Brain ==
  [brain_state |-> brain_state, previous_state |-> previous_state,
   state_age |-> state_age, brain_stats |-> brain_stats,
   event_log |-> event_log, transitions |-> transitions,
   notified |-> notified, last_transition |-> last_transition]

ApplyBrain(j) ==
  /\ brain_state' = j.brain_state
  /\ previous_state' = j.previous_state
  /\ state_age' = j.state_age
  /\ brain_stats' = j.brain_stats
  /\ event_log' = j.event_log
  /\ transitions' = j.transitions
  /\ notified' = j.notified
  /\ last_transition' = j.last_transition

\* _log_event, lines 435-444: the length of the log after the append.
LogEvent(n) == IF n + 1 > max_log THEN max_log ELSE n + 1

\* Lines 113-120: the state-change callback is called with the old and the
\* new state of the transition, and the task is suspended in it.
Notify(j, task) ==
  LET tr == j.transitions[task]
  IN  [j EXCEPT !.notified = [count |-> @.count + 1, seq |-> tr.seq,
                              from |-> tr.old, to |-> tr.new],
                !.transitions[task].stage = "notifying"]

\* _on_state_enter, lines 122-150, up to its suspension (line 144).
OnStateEnter(j, new_state) ==
  IF new_state = "OWNER_PRESENT"
    THEN [j EXCEPT !.brain_stats.owner_greetings = @ + 1]
  ELSE IF new_state = "INTRUDER_ALERT"
    THEN [j EXCEPT !.brain_stats.intruder_alerts = @ + 1]
  ELSE j

\* (mutant) no state is taken for the present one.
NeverSame(j, new_state) == FALSE

\* Line 92.
SameState(j, new_state) == new_state = j.brain_state

\* _transition, lines 90-120, from the call to its first suspension: in
\* home_service.buzz when the brain enters INTRUDER_ALERT (line 144), in the
\* state-change callback otherwise.
BrainTransition(j, task, new_state) ==
  LET old == j.brain_state
      j0 == [j EXCEPT !.last_transition =
               [task |-> task, new |-> new_state, found |-> old]]
  IN
  IF SameState(j, new_state) THEN j0
  ELSE
    LET j1 == [j0 EXCEPT
                 !.previous_state = old,
                 !.brain_state = new_state,
                 !.state_age = 0,
                 !.brain_stats.state_changes = @ + 1,
                 !.event_log = LogEvent(@),
                 !.transitions[task] =
                    [stage |-> "entering", old |-> old, new |-> new_state,
                     seq |-> j.brain_stats.state_changes + 1]]
        j2 == OnStateEnter(j1, new_state)
    IN  IF new_state = "INTRUDER_ALERT" THEN j2 ELSE Notify(j2, task)

\* Lines 303-311.
HandleOwnerEntered(j) == BrainTransition(j, "monitor", "OWNER_PRESENT")

\* Lines 313-316.
HandleOwnerLeft(j) ==
  IF j.brain_state = "OWNER_PRESENT"
    THEN BrainTransition(j, "monitor", "WATCHING")
    ELSE j

\* Lines 318-320.
HandleIntruderDetected(j) == BrainTransition(j, "monitor", "INTRUDER_ALERT")

\* (mutant) the empty room wakes the brain from any state.
AnyState(j) == TRUE

\* Line 324.
NotSleeping(j) == j.brain_state # "SLEEPING"

\* Lines 322-325.
HandleRoomEmpty(j) ==
  IF NotSleeping(j)
    THEN BrainTransition(j, "monitor", "WATCHING")
    ELSE j

\* The callbacks start() registers with the presence service (lines
\* 172-175): none for presence_changed.
Handle(j, name) ==
  CASE name = "owner_entered" -> HandleOwnerEntered(j)
    [] name = "owner_left" -> HandleOwnerLeft(j)
    [] name = "intruder_detected" -> HandleIntruderDetected(j)
    [] name = "room_empty" -> HandleRoomEmpty(j)
    [] OTHER -> j

\* The behaviour of the state the main loop finds (lines 221-241, 254-298),
\* with presence the presence the presence service reports.
Behavior(j, presence) ==
  LET current == j.brain_state
      duration == j.state_age
  IN
  CASE current = "SLEEPING" ->
         IF duration > 300
           THEN BrainTransition(j, "main", "LEARNING") ELSE j
    [] current = "WATCHING" ->
         IF duration > IDLE_TIMEOUT_SECONDS
           THEN BrainTransition(j, "main", "SLEEPING") ELSE j
    [] current = "LISTENING" ->
         IF duration > 30
           THEN BrainTransition(j, "main", "OWNER_PRESENT") ELSE j
    [] current = "INTRUDER_ALERT" ->
         IF presence = "EMPTY"
           THEN BrainTransition(j, "main", "WATCHING")
         ELSE IF presence = "OWNER_PRESENT"
           THEN BrainTransition(j, "main", "OWNER_PRESENT")
         ELSE j
    [] current = "LEARNING" ->
         IF duration > 30
           THEN IF presence = "EMPTY"
                  THEN BrainTransition(j, "main", "SLEEPING")
                  ELSE BrainTransition(j, "main", "WATCHING")
           ELSE j
    [] OTHER -> j

\* ------------------------------------------------------ the brain's actions
\* The frames of the room under HomeSpec and BrainSpec.
HomeFaces == {<<>>, <<"owner">>, <<"unknown">>, <<"owner", "unknown">>}

\* The states the server's tasks ask for: api.py lines 458, 464, 470 and the
\* task of the MQTT intruder handler, lines 121-123.
RequestTargets == {"SLEEPING", "OWNER_PRESENT", "LISTENING", "INTRUDER_ALERT"}

\* The presence service emits an event: _emit calls the brain's handler of
\* it first.
Handled(before) ==
  IF Len(emitted') > before
    THEN LET j == Handle(Brain, emitted'[Len(emitted')].name)
         IN  /\ j.brain_stats.state_changes <= MaxChanges
             /\ ApplyBrain(j)
    ELSE UNCHANGED jvars

\* A presence tick with the brain's handlers as callbacks.
HomeTick ==
  /\ Tick({FALSE}, {"frame"}, HomeFaces)
  /\ Handled(0)
  /\ UNCHANGED bvars

\* A callback of the presence service ends; the brain's handler, the first
\* callback, ends when its transition is over.
HomeResume ==
  /\ cb = 1 => transitions["monitor"].stage = "none"
  /\ Returned
  /\ Handled(Len(emitted))
  /\ UNCHANGED bvars

\* One iteration of _main_loop, lines 211-249, up to its first suspension.
MainLoop ==
  /\ transitions["main"].stage = "none"
  /\ LET j == Behavior(Brain, state.presence)
     IN  /\ j.brain_stats.state_changes <= MaxChanges
         /\ ApplyBrain(j)
  /\ UNCHANGED <<vars, bvars>>

\* A task of the server calls _transition.
Request ==
  /\ transitions["request"].stage = "none"
  /\ brain_stats.state_changes < MaxChanges
  /\ \E new_state \in RequestTargets :
       ApplyBrain(BrainTransition(Brain, "request", new_state))
  /\ UNCHANGED <<vars, bvars>>

\* home_service.buzz returns (or raises, lines 145-146): the transition goes
\* on to the callbacks.
StateEntered ==
  /\ \E task \in Tasks :
       /\ transitions[task].stage = "entering"
       /\ ApplyBrain(Notify(Brain, task))
  /\ UNCHANGED <<vars, bvars>>

\* The state-change callback returns, and _transition with it.
CallbackReturns ==
  /\ \E task \in Tasks :
       /\ transitions[task].stage = "notifying"
       /\ transitions' = [transitions EXCEPT ![task] = NoTransition]
  /\ UNCHANGED <<brain_state, previous_state, state_age, brain_stats,
                 event_log, notified, last_transition>>
  /\ UNCHANGED <<vars, bvars>>

\* Time passes between two ticks: the age of the state moves on to its next
\* class (over 30 seconds, over 300 seconds).
BrainElapse ==
  /\ pc \notin CallbackPcs
  /\ state_age <= 300
  /\ state_age' = IF state_age <= 30 THEN 31 ELSE 301
  /\ UNCHANGED <<brain_state, previous_state, brain_stats, event_log,
                 transitions, notified, last_transition>>
  /\ UNCHANGED <<vars, bvars>>

\* JarvisBrain.start() has returned (lines 155-188): the handlers are
\* registered, the presence service is monitoring, the brain is WATCHING
\* and its main loop runs.
Started ==
  /\ state = RoomState0
  /\ consecutive_empty = 0
  /\ consecutive_owner = 0
  /\ consecutive_unknown = 0
  /\ monitoring = TRUE
  /\ pc = "waiting"
  /\ recording_intruder = FALSE
  /\ record_age = 0
  /\ intruder_records = <<>>
  /\ greeting_age = Saturated
  /\ greet_event_age = -1
  /\ prev_state = "EMPTY"
  /\ tick = NoTick
  /\ emitted = <<>>
  /\ outcome = "none"
  /\ run = [class |-> "nil", len |-> 0]
  /\ greet_gap = -1
  /\ scen = [step |-> 0, intruder |-> 0, entered |-> 0]
  /\ cb = 0
  /\ cb_threw = FALSE
  /\ loops = 1
  /\ InitBridge
  /\ brain_state = "WATCHING"
  /\ previous_state = "INITIALIZING"
  /\ state_age = 0
  /\ brain_stats = [owner_greetings |-> 0, intruder_alerts |-> 0,
                    state_changes |-> 1]
  /\ event_log = 1
  /\ transitions = [k \in Tasks |-> NoTransition]
  /\ notified = [count |-> 1, seq |-> 1, from |-> "INITIALIZING",
                 to |-> "WATCHING"]
  /\ last_transition = [task |-> "request", new |-> "WATCHING",
                        found |-> "INITIALIZING"]

\* The brain with the presence service and its own main loop.
HomeNext ==
  \/ HomeTick
  \/ HomeResume
  \/ MainLoop
  \/ CallbackReturns
  \/ BrainElapse

HomeSpec == Started /\ [][HomeNext]_<<vars, bvars, jvars>>

\* The same, with the tasks of the server that call _transition.
BrainNext ==
  \/ HomeTick
  \/ HomeResume
  \/ MainLoop
  \/ CallbackReturns
  \/ BrainElapse
  \/ Request
  \/ StateEntered

BrainSpec == Started /\ [][BrainNext]_<<vars, bvars, jvars>>

\* ================================================================ claims
\* The last tick processed a frame and is over (it returned, raised, or
\* was cancelled).
TickOver == tick.class # "nil" /\ pc \in {"waiting", "done"}

\* The presence state an event announces.
Target(name) ==
  IF name = "owner_entered" THEN "OWNER_PRESENT"
  ELSE IF name = "intruder_detected" THEN "UNKNOWN_PERSON"
  ELSE "EMPTY"

\* C1 (debounce): presence changes on a tick only if that tick and the
\* stability_count - 1 ticks before it had the same classification, one of
\* empty, owner present, unknown only.
C1_Debounce ==
  [][state.presence' # state.presence =>
       /\ run'.len >= stability_count
       /\ run'.class \in {"empty", "owner", "unknown"}]_vars

C3_ExactlyOnce ==
  tick.class # "nil" =>
    \A name \in {"owner_entered", "intruder_detected", "room_empty"} :
      Count(name, emitted) =
        IF state.presence = Target(name) /\ prev_state # Target(name)
          THEN 1 ELSE 0

\* C4 (presence_changed): a tick emits presence_changed once if presence
\* after the tick differs from presence before it, and not at all if it does
\* not.
C4_PresenceChanged ==
  TickOver =>
    Count("presence_changed", emitted) =
      IF state.presence # prev_state THEN 1 ELSE 0

\* C5 (example scenario): from the initial state, stability_count ticks with
\* unknown faces only give exactly one intruder_detected and presence
\* UNKNOWN_PERSON; stability_count ticks with the owner only, fed next, give
\* exactly one owner_entered and presence OWNER_PRESENT.
C5_Scenario ==
  /\ scen.step = stability_count =>
       scen.intruder = 1 /\ state.presence = "UNKNOWN_PERSON"
  /\ scen.step = 2 * stability_count =>
       scen.entered = 1 /\ state.presence = "OWNER_PRESENT"

\* C6 (intruderActive): after the tick that takes presence from
\* UNKNOWN_PERSON to OWNER_PRESENT, intruder_active is false.
C6_IntruderCleared ==
  (prev_state = "UNKNOWN_PERSON" /\ state.presence = "OWNER_PRESENT") =>
    ~state.intruder_active

\* C7 (greeting cooldown): an owner_entered event emitted within
\* GREETING_COOLDOWN of an owner_entered event that carried should_greet =
\* true carries should_greet = false; the first one carries true.
C7_GreetingCooldown ==
  \A i \in DOMAIN emitted :
    emitted[i].name = "owner_entered" =>
      /\ (greet_gap >= 0 /\ greet_gap <= GREETING_COOLDOWN) =>
           ~emitted[i].should_greet
      /\ greet_gap < 0 => emitted[i].should_greet

\* C8 (recording): at the end of a tick an intruder recording is in progress
\* exactly if presence is UNKNOWN_PERSON.
C8_RecordingFollowsState ==
  TickOver => (recording_intruder <=> state.presence = "UNKNOWN_PERSON")

\* C9 (skipped tick): a tick whose frame capture returns no frame, or whose
\* capture or recognition raises, leaves the three counters, the RoomState,
\* the intruder records and the recording flag as they were, emits nothing,
\* and leaves the monitor loop waiting for its next tick.
C9_SkippedTick ==
  [][(pc = "waiting" /\ monitoring /\ monitoring'
        /\ outcome' \in {"skipped", "failed"}) =>
       /\ UNCHANGED <<consecutive_empty, consecutive_owner,
                      consecutive_unknown, state, intruder_records,
                      recording_intruder>>
       /\ emitted' = <<>>
       /\ pc' = "waiting"]_vars

\* C9 witness: a tick without a frame has been skipped in the middle of a
\* run of owner ticks that is one short of the threshold.
C9_Witness ==
  /\ outcome = "skipped"
  /\ consecutive_owner = stability_count - 1
  /\ pc = "waiting"

\* C10 (cooperative shutdown): when the monitor loop has terminated, its
\* last tick has run to its end: stop_monitoring has interrupted no tick.
C10_NoTickInterrupted ==
  pc = "done" => outcome # "cancelled"

\* ------------------------------------------------- claims on the bridge
\* The step is the delivery of a message to _on_message.
Received == stats'.messages_received = stats.messages_received + 1

\* The handlers registered for the event type of the message delivered.
HandlersOf(topic) ==
  IF EventOf(topic) \in EventTypes
    THEN event_handlers[EventOf(topic)] ELSE <<>>

Hows(dispatches, hows) ==
  Cardinality({i \in DOMAIN dispatches : dispatches[i].how \in hows})

\* The step is a state query.
Queried == result'.op \in {"get_device_state", "get_all_devices"}

\* C11 (staleness): get_device_state and get_all_devices report a device
\* online exactly if its stored online flag is true and its last heartbeat
\* is at most stale_after seconds old; get_all_devices reports every device;
\* the queries leave the registry, the stored flag with it, as it was.
C11_Staleness ==
  [][Queried =>
       /\ devices' = devices
       /\ result'.op = "get_all_devices" =>
            DOMAIN result'.online = DOMAIN devices
       /\ \A d \in DOMAIN result'.online :
            result'.online[d] =
              (devices[d].online /\ devices[d].heartbeat_age <= stale_after)
    ]_<<vars, bvars>>

\* C11 witness: a device that had a heartbeat more than stale_after seconds
\* ago is reported offline by get_all_devices, with its stored flag true.
C11_Witness ==
  /\ result.op = "get_all_devices"
  /\ \E d \in DOMAIN devices :
       /\ devices[d].device_type = "server"
       /\ devices[d].online
       /\ devices[d].heartbeat_age > stale_after
       /\ ~result.online[d]

\* C12 (handler isolation): when a handler of a message throws, every
\* handler registered after it for the event type is invoked for that
\* message, and the errors counter grows by the number of handlers that
\* threw.
C12_HandlerIsolation ==
  [][(Received /\ Hows(invoked', {"threw"}) > 0) =>
       /\ \A i \in DOMAIN invoked' :
            invoked'[i].how = "threw" =>
              \A j \in (invoked'[i].handler + 1)..Len(HandlersOf(last_msg'.topic)) :
                \E k \in DOMAIN invoked' :
                  /\ invoked'[k].handler = j
                  /\ invoked'[k].how \in {"returned", "threw"}
       /\ stats'.errors = stats.errors + Hows(invoked', {"threw"})
    ]_<<vars, bvars>>

\* C13 as stated: whenever disconnect() is called on a bridge that has a
\* client, the offline status is published to jarvis/state, then the loop
\* is stopped and the connection closed, and connected is false afterwards.
C13_OfflineAlways ==
  [][(result'.op = "disconnect" /\ client) =>
       /\ Len(calls') = 3
       /\ calls'[1].op = "publish"
       /\ calls'[1].topic = TOPIC_JARVIS_STATE
       /\ calls'[1].payload = JsonDumps("offline")
       /\ calls'[2].op = "loop_stop"
       /\ calls'[3].op = "disconnect"
       /\ ~connected'
    ]_<<vars, bvars>>

\* C13 (amended): when disconnect() is called on a bridge that has a client
\* and is connected, one publish call of the offline status to jarvis/state
\* is made, then the loop is stopped and the connection closed; on a bridge
\* that has a client and is not connected nothing is published before the
\* loop is stopped and the connection closed; connected is false afterwards
\* in both cases.
C13_OfflineWhenConnected ==
  [][(result'.op = "disconnect" /\ client) =>
       /\ Len(calls') = IF connected THEN 3 ELSE 2
       /\ connected =>
            /\ calls'[1].op = "publish"
            /\ calls'[1].topic = TOPIC_JARVIS_STATE
            /\ calls'[1].payload = JsonDumps("offline")
       /\ calls'[Len(calls') - 1].op = "loop_stop"
       /\ calls'[Len(calls')].op = "disconnect"
       /\ ~connected'
    ]_<<vars, bvars>>

\* C13 witness: disconnect() has published the offline status and then
\* stopped the loop and closed the connection.
C13_Witness ==
  /\ result.op = "disconnect"
  /\ Len(calls) = 3
  /\ calls[1].op = "publish"
  /\ calls[1].payload = JsonDumps("offline")
  /\ calls[3].op = "disconnect"
  /\ ~connected

\* C14 (bounded log): the message log is at most max_log_size long and holds
\* the last min(n, max_log_size) of the n messages received, in the order of
\* their arrival.
C14_LogBounded ==
  LET n == stats.messages_received
      len == Len(message_log)
  IN  /\ len <= max_log_size
      /\ len = IF n < max_log_size THEN n ELSE max_log_size
      /\ \A i \in 1..len : message_log[i].timestamp = n - len + i

\* C14 witness: more than max_log_size messages have been received, and the
\* log has dropped the oldest of them.
C14_Witness ==
  /\ stats.messages_received = max_log_size + 2
  /\ Len(message_log) = max_log_size
  /\ message_log[1].timestamp = 3

\* C15 (heartbeat idempotence): a heartbeat message that is processed a
\* second time in a row at the same clock value leaves the device registry,
\* its set of devices and every field of every DeviceState, as the first
\* processing left it.
C15_HeartbeatIdempotent ==
  [][(/\ Received
      /\ last_msg'.times = 2
      /\ last_msg'.topic \in {TOPIC_JARVIS_HEARTBEAT,
                              TOPIC_JARVIS_CAM_HEARTBEAT}) =>
       devices' = devices
    ]_<<vars, bvars>>

\* C15 witness: a heartbeat that names its device and carries its fields
\* has been processed twice in a row.
C15_Witness ==
  /\ last_msg.times = 2
  /\ last_msg.topic = TOPIC_JARVIS_HEARTBEAT
  /\ "d1" \in DOMAIN devices
  /\ devices["d1"].uptime = 5
  /\ devices["d1"].heartbeat_age = 0

\* C16 (publish): a command helper on a bridge without a client or not
\* connected returns false, calls nothing on the client and leaves
\* messages_sent as it was; on a connected bridge it makes exactly one
\* publish call and returns true exactly if that call reported success.
C16_Publish ==
  [][result'.op = "publish" =>
       IF ~client \/ ~connected
         THEN /\ ~result'.value
              /\ calls' = <<>>
              /\ stats'.messages_sent = stats.messages_sent
         ELSE /\ Len(calls') = 1
              /\ calls'[1].op = "publish"
              /\ result'.value = (calls'[1].how = "success")
    ]_<<vars, bvars>>

\* C16 witness: a command was sent with one publish call that reported an
\* error, and the helper returned false.
C16_Witness ==
  /\ result.op = "publish"
  /\ ~result.value
  /\ Len(calls) = 1
  /\ calls[1].how = "error"
  /\ calls[1].topic = TOPIC_JARVIS_CMD

\* ---------------------------------------- claims on the presence service
\* The step is a tick that processes a frame.
Processed ==
  /\ pc = "waiting"
  /\ monitoring
  /\ monitoring'
  /\ outcome' \notin {"skipped", "failed"}
  /\ tick'.class # "nil"

\* C17 (counter update): at the end of every processed tick at most one of
\* the three counters is non-zero (the one of the tick's classification was
\* incremented and the other two reset).
C17_OneCounter ==
  Cardinality({k \in {"e", "o", "u"} :
     [e |-> consecutive_empty, o |-> consecutive_owner,
      u |-> consecutive_unknown][k] # 0}) <= 1

\* C18 (room empties): a tick that ends a run of stability_count or more
\* empty ticks leaves presence EMPTY with owner_detected false, num_faces 0
\* and intruder_active false; the tick on which presence becomes EMPTY emits
\* room_empty once, an empty tick with presence EMPTY before it changes
\* nothing of the RoomState and emits nothing, and room_empty is not emitted
\* again while the tick goes on.
C18_RoomEmpties ==
  [][/\ (Processed /\ tick'.class = "empty") =>
          /\ run'.len >= stability_count => state' = RoomState0
          /\ (state.presence # "EMPTY" /\ state'.presence = "EMPTY") =>
               Count("room_empty", emitted') = 1
          /\ state.presence = "EMPTY" =>
               state' = state /\ emitted' = <<>>
     /\ pc \in CallbackPcs =>
          Count("room_empty", emitted') = Count("room_empty", emitted)
    ]_<<vars, bvars>>

\* C18 witness: three empty ticks have taken presence from UNKNOWN_PERSON,
\* where intruder_active was true, to EMPTY, and room_empty was emitted.
C18_Witness ==
  /\ tick.class = "empty"
  /\ run.len >= stability_count
  /\ prev_state = "UNKNOWN_PERSON"
  /\ state = RoomState0
  /\ Count("room_empty", emitted) = 1

\* ------------------------------------------------- claims on the bridge
\* C19 (payloads): every message, whether its payload is a JSON object, a
\* JSON value of another type or no JSON, is counted, appended to the log
\* (a payload that is no JSON as {raw: payload}) and routed to the handlers
\* of its topic, and the errors counter grows only by the handlers that
\* failed.
C19_EveryPayloadRouted ==
  [][Received =>
       /\ Len(message_log') > 0
       /\ message_log'[Len(message_log')].topic = last_msg'.topic
       /\ JsonLoads(last_msg'.payload).type = "raises" =>
            message_log'[Len(message_log')].data.raw = last_msg'.payload
       /\ Len(invoked') = Len(HandlersOf(last_msg'.topic))
       /\ stats'.errors =
            stats.errors + Hows(invoked', {"threw", "no_event_loop"})
    ]_<<vars, bvars>>

\* C20 (invocation count): a message that routes to an event type invokes
\* every handler registered for the type once, in the order of
\* registration, also when the same message is delivered again, and
\* events_routed grows by the number of invocations that did not throw.
C20_InvokedOncePerDelivery ==
  [][(Received /\ EventOf(last_msg'.topic) \in EventTypes) =>
       /\ Len(invoked') = Len(HandlersOf(last_msg'.topic))
       /\ \A i \in DOMAIN invoked' :
            /\ invoked'[i].handler = i
            /\ invoked'[i].how \in {"returned", "threw"}
       /\ stats'.events_routed =
            stats.events_routed + Hows(invoked', {"returned"})
    ]_<<vars, bvars>>

\* ------------------------------------- further claims on the presence machine
\* C22 (owner flag): at the end of every tick owner_detected is true exactly
\* if presence is OWNER_PRESENT or MULTIPLE_PEOPLE.
C22_OwnerDetected ==
  TickOver =>
    (state.owner_detected
       <=> state.presence \in {"OWNER_PRESENT", "MULTIPLE_PEOPLE"})

\* C22 witness: the owner had been present, and a tick has emptied the room.
C22_Witness ==
  /\ TickOver
  /\ outcome = "complete"
  /\ prev_state \in {"OWNER_PRESENT", "MULTIPLE_PEOPLE"}
  /\ state.presence = "EMPTY"
  /\ Count("room_empty", emitted) = 1

\* C23 (intruder flags): at the end of every tick, UNKNOWN_PERSON implies
\* intruder_active and a recording in progress; a recording in progress
\* implies UNKNOWN_PERSON or MULTIPLE_PEOPLE; EMPTY implies neither
\* intruder_active nor a recording.
C23_IntruderFlags ==
  TickOver =>
    /\ state.presence = "UNKNOWN_PERSON" =>
         (state.intruder_active /\ recording_intruder)
    /\ recording_intruder =>
         state.presence \in {"UNKNOWN_PERSON", "MULTIPLE_PEOPLE"}
    /\ state.presence = "EMPTY" =>
         (~state.intruder_active /\ ~recording_intruder)

\* C24 (MULTIPLE_PEOPLE): presence MULTIPLE_PEOPLE changes to EMPTY only, and
\* the tick that enters MULTIPLE_PEOPLE emits no owner_entered.
C24_MultipleLeftThroughEmpty ==
  [][/\ state.presence = "MULTIPLE_PEOPLE" =>
          state.presence' \in {"MULTIPLE_PEOPLE", "EMPTY"}
     /\ (state.presence' = "MULTIPLE_PEOPLE"
           /\ prev_state' # "MULTIPLE_PEOPLE") =>
          Count("owner_entered", emitted') = 0]_vars

\* C24 witness: presence is MULTIPLE_PEOPLE after stability_count or more
\* consecutive ticks that saw unknown faces only.
C24_Witness ==
  /\ TickOver
  /\ outcome = "complete"
  /\ state.presence = "MULTIPLE_PEOPLE"
  /\ run = [class |-> "unknown", len |-> stability_count]
  /\ consecutive_unknown >= stability_count

\* Every room_empty of the tick is followed at once by an owner_left, and
\* every owner_left follows a room_empty.
LeftFollowsEmpty(events) ==
  /\ \A i \in DOMAIN events :
       events[i].name = "room_empty" =>
         (i < Len(events) /\ events[i + 1].name = "owner_left")
  /\ \A i \in DOMAIN events :
       events[i].name = "owner_left" =>
         (i > 1 /\ events[i - 1].name = "room_empty")

\* C25 (owner_left): once a tick is over, the owner_left events it emitted
\* are those that follow a room_empty at once, one for each room_empty.
C25_OwnerLeftWithRoomEmpty ==
  pc \in {"waiting", "done"} => LeftFollowsEmpty(emitted)

\* --------------------------------------------- a further claim on the bridge
\* The devices that never had a heartbeat.
NeverBeat(devs) == {d \in DOMAIN devs : devs[d].heartbeat_age = Epoch}

\* C30 (camera status is no heartbeat): a camera/status message creates the
\* DeviceState of its camera if there is none, as a camera, sets the stored
\* online flag from the status field and leaves last_heartbeat as it was;
\* a device leaves the devices without a heartbeat only by a heartbeat
\* message for its id; such a device is reported offline by
\* get_device_state and get_all_devices and is not counted by get_stats;
\* no message changes the type of a device.
C30_StatusIsNoHeartbeat ==
  [][/\ (Received /\ last_msg'.topic = TOPIC_CAM_STATUS
           /\ Decode(last_msg'.payload).type = "dict") =>
          LET data == Decode(last_msg'.payload)
              id == Get(data, "camera", "esp32-cam")
          IN  /\ id \in DOMAIN devices'
              /\ devices'[id].online = (data.status = "online")
              /\ devices'[id].heartbeat_age =
                    IF id \in DOMAIN devices
                      THEN devices[id].heartbeat_age ELSE Epoch
              /\ id \notin DOMAIN devices =>
                    devices'[id].device_type = "camera"
     /\ \A d \in NeverBeat(devices) \ NeverBeat(devices') :
          /\ Received
          /\ last_msg'.topic
               \in {TOPIC_JARVIS_HEARTBEAT, TOPIC_JARVIS_CAM_HEARTBEAT}
          /\ d = Get(Decode(last_msg'.payload), "device",
                     IF last_msg'.topic = TOPIC_JARVIS_HEARTBEAT
                       THEN "esp32-server" ELSE "esp32-cam")
     /\ result'.op \in {"get_device_state", "get_all_devices"} =>
          \A d \in DOMAIN result'.online \cap NeverBeat(devices) :
            ~result'.online[d]
     /\ result'.op = "get_stats" =>
          /\ result'.devices_total = Cardinality(DOMAIN devices)
          /\ result'.devices_online
               <= Cardinality(DOMAIN devices \ NeverBeat(devices))
     /\ \A d \in DOMAIN devices :
          /\ d \in DOMAIN devices'
          /\ devices'[d].device_type = devices[d].device_type]_bvars

\* C30 witness: the only device is a camera whose status message said
\* "online" and that never had a heartbeat; get_stats counts no device
\* online.
C30_Witness ==
  /\ result.op = "get_stats"
  /\ result.devices_total = 1
  /\ result.devices_online = 0
  /\ \E d \in DOMAIN devices :
       devices[d].online /\ devices[d].heartbeat_age = Epoch

\* C21 (callback isolation): when a callback raises an exception, _emit goes
\* on to the next callback of the event; after the last callback the tick
\* goes on as after a return, to owner_left after room_empty and to
\* presence_changed or to its end after the other events; the tick is not
\* ended by the exception.
C21_CallbackIsolation ==
  [][(pc \in CallbackPcs /\ cb_threw' /\ <<pc, cb>>' # <<pc, cb>>) =>
       /\ outcome' \notin {"raised", "failed", "cancelled"}
       /\ UNCHANGED <<state, monitoring, consecutive_empty,
                      consecutive_owner, consecutive_unknown>>
       /\ IF cb < MaxCallbacks
            THEN pc' = pc /\ cb' = cb + 1 /\ emitted' = emitted
          ELSE IF pc = "cb_room_empty"
            THEN /\ pc' = "cb_owner_left" /\ cb' = 1
                 /\ emitted' = Append(emitted, Ev("owner_left"))
          ELSE IF pc # "cb_presence_changed" /\ state.presence # prev_state
            THEN /\ pc' = "cb_presence_changed" /\ cb' = 1
                 /\ emitted' = Append(emitted, Ev("presence_changed"))
          ELSE /\ pc' = "waiting" /\ outcome' = "complete"
               /\ emitted' = emitted]_vars

\* C21 witness: the last callback of an event of the tick has raised, and
\* the tick has gone on to emit presence_changed.
C21_Witness ==
  /\ cb_threw
  /\ pc = "cb_presence_changed"
  /\ cb = 1
  /\ Len(emitted) >= 2

\* The variables a tick writes.
tickvars ==
  <<state, consecutive_empty, consecutive_owner, consecutive_unknown,
    recording_intruder, intruder_records, greeting_age, tick, emitted>>

\* C26 (one monitor loop): at most one monitor loop is alive; a loop is
\* created only when the service is not monitoring, and there is none when
\* the service is not monitoring; a tick runs only while the service is
\* monitoring.
C26_OneMonitorLoop ==
  [][/\ loops' <= 1
     /\ loops' > loops => (~monitoring /\ monitoring')
     /\ ~monitoring' => (loops' = 0 /\ pc' \in {"idle", "done"})
     /\ (tickvars' # tickvars \/ pc' \in CallbackPcs) =>
          (monitoring /\ monitoring' /\ loops = 1)]_vars

\* C26 witness: the service has been stopped in the middle of a tick and
\* started again; one loop is alive.
C26_Witness ==
  /\ monitoring
  /\ loops = 1
  /\ pc = "waiting"
  /\ outcome = "cancelled"

\* ------------------------------------------------------ claims on the brain
\* No call of _transition is in progress.
Quiet == \A k \in Tasks : transitions[k].stage = "none"

Called == last_transition' # last_transition

\* C28 (effect of a transition): a call of _transition with the present
\* state changes nothing; any other call sets the state, sets
\* previous_state to the state it found, restarts the age of the state, adds
\* one to state_changes, one entry to the event log and, if the new state is
\* INTRUDER_ALERT, one to intruder_alerts; nothing else changes them.
\* previous_state differs from the state, and every state change is
\* notified once, after its state entry.
C28_TransitionEffect ==
  [][/\ Called =>
          LET c == last_transition' IN
          /\ c.found = brain_state
          /\ IF c.new = brain_state
               THEN UNCHANGED <<brain_state, previous_state, state_age,
                                brain_stats, event_log, transitions,
                                notified>>
               ELSE /\ brain_state' = c.new
                    /\ previous_state' = brain_state
                    /\ state_age' = 0
                    /\ brain_stats'.state_changes =
                         brain_stats.state_changes + 1
                    /\ brain_stats'.intruder_alerts =
                         brain_stats.intruder_alerts
                           + (IF c.new = "INTRUDER_ALERT" THEN 1 ELSE 0)
                    /\ event_log' = event_log + 1
                    /\ transitions'[c.task].stage # "none"
     /\ ~Called =>
          UNCHANGED <<brain_state, previous_state, brain_stats, event_log>>
     /\ previous_state' # brain_state'
     /\ notified'.count \in {notified.count, notified.count + 1}
     /\ notified'.count
           + Cardinality({k \in Tasks : transitions'[k].stage = "entering"})
          = brain_stats'.state_changes]_jvars

\* C28 witness: the brain is in INTRUDER_ALERT, _transition has been called
\* for INTRUDER_ALERT again, and intruder_alerts is one.
C28_Witness ==
  /\ last_transition.new = "INTRUDER_ALERT"
  /\ last_transition.found = "INTRUDER_ALERT"
  /\ brain_state = "INTRUDER_ALERT"
  /\ brain_stats.intruder_alerts = 1
  /\ brain_stats.state_changes = 2

\* The step ends a presence tick.
EndOfTick == pc' = "waiting" /\ vars' # vars

\* The tick that ends has changed presence to p.
ChangedTo(p) == state'.presence = p /\ prev_state' # p

====
